---- MODULE Spec2Model ----
(***************************************************************************)
(* A model of docs/ai-integration/scripts/fly_agent.py: the FlyCLIAgent    *)
(* bridge (availability probe, argument construction, subprocess           *)
(* execution and decoding) and the script's main().                        *)
(*                                                                         *)
(* Line 72 of the source reads `json.loads(result.stdout as String)`,      *)
(* which is not Python; it is modelled as json.loads(result.stdout), the   *)
(* only reading under which the file runs at all.                          *)
(*                                                                         *)
(* Text is modelled without string concatenation:                          *)
(*   - an argv token is a sequence of strings standing for their           *)
(*     ","-join, so a plain token s is <<s>> and ",".join(platforms) is    *)
(*     the platform sequence itself;                                       *)
(*   - an exception message f"{prefix}{detail}" is the pair prefix, detail.*)
(***************************************************************************)
EXTENDS Integers, Sequences, FiniteSets, TLC

VARIABLES pc, fly_command, probes, ncalls, input, argv, env, outcome,
          probe_env, construct, out, err, status

vars == <<pc, fly_command, probes, ncalls, input, argv, env, outcome,
          probe_env, construct, out, err, status>>

----------------------------------------------------------------------------
(* Bounds of the model *)

\* longest platform list a caller passes
MaxPlatforms == 2
\* commands issued through one agent
MaxCalls == 2

PlatformNames == {"ios", "android"}
Names == {"my_app"}
Features == {"auth"}
Organizations == {"com.example", "org.acme"}
OutputFiles == {".ai/project_context.md", "ctx.md"}
BaseUrls == {"", "https://api.example.com"}
SchemaCommands == {"", "create"}
FlyCommands == {"fly", "/opt/fly"}
ExitCodes == {0, 1}
StderrTexts == {"", "disk full"}
ProbeStdouts == {"1.0.0\n"}
Templates == {"riverpod", "minimal"}
ScreenTypes == {"generic", "list"}
ServiceTypes == {"api", "repository"}

----------------------------------------------------------------------------
(* Python values *)

\* Optional[T]: None, or a value
None == [some |-> FALSE]
Some(v) == [some |-> TRUE, v |-> v]

\* truth value of an Optional[str] in `if x:` (None and "" are false)
TruthyStr(x) == x.some /\ x.v # ""

\* truth value of a list in `if x:` (the empty list is false)
TruthyList(l) == l # <<>>

\* JSON values as json.loads builds them; o holds a dict's items, s the text
\* str() gives for a scalar
JStr(s) == [t |-> "string", s |-> s, o |-> {}]
JNum(s) == [t |-> "number", s |-> s, o |-> {}]
JNull == [t |-> "null", s |-> "None", o |-> {}]
JTrue == [t |-> "bool", s |-> "True", o |-> {}]
JArr(s) == [t |-> "array", s |-> s, o |-> {}]
JObj(items) == [t |-> "object", s |-> "", o |-> items]

\* the captured stdout texts the model draws from
StdoutTexts ==
  { "", "Created project my_app", "{\"error\":",
    "{\"ok\": true}", " {\"ok\":true}\n", "{}",
    "{\"error\": {\"message\": \"boom\"}}",
    "{\"error\": {\"message\": 5}}",
    "{\"error\": {\"code\": \"E1\"}}",
    "{\"error\": \"boom\"}",
    "{\"message\": \"boom\"}",
    "[1]", "null", "\"boom\"" }

\* json.loads(text): ok with the decoded value, or the JSONDecodeError text
Decoded(v) == [ok |-> TRUE, value |-> v, msg |-> ""]
DecodeError(m) == [ok |-> FALSE, value |-> JNull, msg |-> m]

json_loads(text) ==
  CASE text = "" -> DecodeError("Expecting value: line 1 column 1 (char 0)")
    [] text = "Created project my_app" ->
         DecodeError("Expecting value: line 1 column 1 (char 0)")
    [] text = "{\"error\":" ->
         DecodeError("Expecting value: line 1 column 10 (char 9)")
    [] text = "{\"ok\": true}" -> Decoded(JObj({<<"ok", JTrue>>}))
    [] text = " {\"ok\":true}\n" -> Decoded(JObj({<<"ok", JTrue>>}))
    [] text = "{}" -> Decoded(JObj({}))
    [] text = "{\"error\": {\"message\": \"boom\"}}" ->
         Decoded(JObj({<<"error", JObj({<<"message", JStr("boom")>>})>>}))
    [] text = "{\"error\": {\"message\": 5}}" ->
         Decoded(JObj({<<"error", JObj({<<"message", JNum("5")>>})>>}))
    [] text = "{\"error\": {\"code\": \"E1\"}}" ->
         Decoded(JObj({<<"error", JObj({<<"code", JStr("E1")>>})>>}))
    [] text = "{\"error\": \"boom\"}" ->
         Decoded(JObj({<<"error", JStr("boom")>>}))
    [] text = "{\"message\": \"boom\"}" ->
         Decoded(JObj({<<"message", JStr("boom")>>}))
    [] text = "[1]" -> Decoded(JArr("[1]"))
    [] text = "null" -> Decoded(JNull)
    [] text = "\"boom\"" -> Decoded(JStr("boom"))

\* whether a value has the dict method .get
HasGet(v) == v.t = "object"

\* d.get(key, default) on a dict
dict_get(d, key, default) ==
  IF \E p \in d.o : p[1] = key
    THEN (CHOOSE p \in d.o : p[1] = key)[2]
    ELSE default

\* str(v), as the f-string applies it
py_str(v) == v.s

\* str.strip() on the probe's stdout
py_strip(text) == IF text = "1.0.0\n" THEN "1.0.0" ELSE text

\* str(e) of a CalledProcessError
CalledProcessErrorStr(code) ==
  IF code = 1 THEN "Command returned non-zero exit status 1."
              ELSE "Command returned non-zero exit status."

----------------------------------------------------------------------------
(* Results of a call: a returned value or a raised exception *)

NoValue == [kind |-> "none", value |-> JNull, exc |-> "", prefix |-> "", detail |-> ""]
Return(v) == [kind |-> "return", value |-> v, exc |-> "", prefix |-> "", detail |-> ""]
Raise(exc, prefix, detail) ==
  [kind |-> "raise", value |-> JNull, exc |-> exc, prefix |-> prefix, detail |-> detail]

\* what subprocess.run met: the spawn outcome, exit code and captured text
NoEnv == [spawn |-> "none", code |-> 0, stdout |-> "", stderr |-> ""]
SpawnFailed(exc) == [spawn |-> exc, code |-> 0, stdout |-> "", stderr |-> ""]
Exited(code, so, se) == [spawn |-> "ok", code |-> code, stdout |-> so, stderr |-> se]

\* OSError subclasses a spawn raises: binary missing, permission denied
SpawnErrors == {"FileNotFoundError", "PermissionError"}

Envs == {SpawnFailed(x) : x \in SpawnErrors}
        \cup {Exited(c, so, se) : c \in ExitCodes, so \in StdoutTexts, se \in StderrTexts}

ProbeEnvs == {SpawnFailed(x) : x \in SpawnErrors}
             \cup {Exited(c, so, "") : c \in ExitCodes, so \in ProbeStdouts}

----------------------------------------------------------------------------
(* FlyCLIAgent._verify_installation *)

NotFoundPrefix == "Fly CLI not found. Please install it with: "
InstallCommand == "dart pub global activate fly_cli"

\* the message of an OSError that no handler rewrites
OSErrorText(exc) ==
  IF exc = "FileNotFoundError" THEN "[Errno 2] No such file or directory"
                               ELSE "[Errno 13] Permission denied"

\* what running [fly_command, "--version"] with check=True raises, "" if nothing
subprocess_run(e) ==
  IF e.spawn # "ok" THEN e.spawn
  ELSE IF e.code # 0 THEN "CalledProcessError"
  ELSE ""

\* the except clause of _verify_installation
verify_catches(exc) == exc \in {"CalledProcessError", "FileNotFoundError"}

\* result of _verify_installation, hence of __init__
verify_installation(e) ==
  LET exc == subprocess_run(e) IN
  IF exc = "" THEN Return(JNull)
  ELSE IF verify_catches(exc) THEN Raise("RuntimeError", NotFoundPrefix, InstallCommand)
  ELSE Raise(exc, "", OSErrorText(exc))

\* lines written to standard output; value is the JSON a result line prints
Banner(version) == [kind |-> "banner", text |-> version, value |-> JNull]
ResultJson(v) == [kind |-> "json", text |-> "", value |-> v]
HelpText == [kind |-> "help", text |-> "usage", value |-> JNull]

\* what _verify_installation prints
verify_prints(e) ==
  IF subprocess_run(e) = "" THEN <<Banner(py_strip(e.stdout))>> ELSE <<>>

----------------------------------------------------------------------------
(* FlyCLIAgent._run_command *)

CliErrorPrefix == "Fly CLI error: "
CommandFailedPrefix == "Fly CLI command failed: "
InvalidJsonPrefix == "Invalid JSON response from Fly CLI: "

T(s) == <<s>>

\* faulty variant of Cmd: the output request is put before the arguments
Cmd_output_first(fly, args) == <<T(fly), T("--output"), T("json")>> \o args

\* cmd = [self.fly_command] + args + ["--output", "json"]
Cmd(fly, args) == <<T(fly)>> \o args \o <<T("--output"), T("json")>>

\* faulty variant of cli_error: the message is looked up at the top level
cli_error_top_level(error_data, e) ==
  IF ~HasGet(error_data)
    THEN Raise("AttributeError", "", "object has no attribute 'get'")
    ELSE Raise("RuntimeError", CliErrorPrefix,
               py_str(dict_get(error_data, "message",
                               JStr(CalledProcessErrorStr(e.code)))))

\* error_data.get('error', {}).get('message', str(e)), then the raise
cli_error(error_data, e) ==
  IF ~HasGet(error_data)
    THEN Raise("AttributeError", "", "object has no attribute 'get'")
  ELSE LET error == dict_get(error_data, "error", JObj({})) IN
    IF ~HasGet(error)
      THEN Raise("AttributeError", "", "object has no attribute 'get'")
    ELSE Raise("RuntimeError", CliErrorPrefix,
               py_str(dict_get(error, "message", JStr(CalledProcessErrorStr(e.code)))))

\* faulty variant of command_failed: stdout is reported in place of stderr
command_failed_stdout(e) == Raise("RuntimeError", CommandFailedPrefix, e.stdout)

\* except json.JSONDecodeError inside the CalledProcessError handler
command_failed(e) == Raise("RuntimeError", CommandFailedPrefix, e.stderr)

\* except subprocess.CalledProcessError as e
on_called_process_error(e) ==
  LET parsed == json_loads(e.stdout) IN
  IF parsed.ok THEN cli_error(parsed.value, e) ELSE command_failed(e)

\* faulty variant of invalid_json_response: an empty success object
invalid_json_response_silent(msg) == Return(JObj({}))

\* except json.JSONDecodeError as e (the success path's decode failed)
invalid_json_response(msg) == Raise("RuntimeError", InvalidJsonPrefix, msg)

\* return json.loads(result.stdout)
on_success(e) ==
  LET parsed == json_loads(e.stdout) IN
  IF parsed.ok THEN Return(parsed.value) ELSE invalid_json_response(parsed.msg)

\* the try statement of _run_command
run_command_outcome(e) ==
  LET exc == subprocess_run(e) IN
  IF exc = "" THEN on_success(e)
  ELSE IF exc = "CalledProcessError" THEN on_called_process_error(e)
  ELSE Raise(exc, "", OSErrorText(exc))

----------------------------------------------------------------------------
(* The operations: each builds args and calls _run_command *)

Flag(b, name) == IF b THEN <<T(name)>> ELSE <<>>

\* faulty variant of create_project_args: --plan is appended unconditionally
create_project_args_always_plan(name, template, organization, platforms, plan) ==
  LET p == IF platforms.some THEN platforms.v ELSE <<"ios", "android">> IN
  <<T("create"), T(name), T("--template"), T(template),
    T("--organization"), T(organization)>>
  \o (IF TruthyList(p) THEN <<T("--platforms"), p>> ELSE <<>>)
  \o <<T("--plan")>>

create_project_args(name, template, organization, platforms, plan) ==
  LET p == IF platforms.some THEN platforms.v ELSE <<"ios", "android">> IN
  <<T("create"), T(name), T("--template"), T(template),
    T("--organization"), T(organization)>>
  \o (IF TruthyList(p) THEN <<T("--platforms"), p>> ELSE <<>>)
  \o Flag(plan, "--plan")

add_screen_args(name, feature, screen_type, with_viewmodel, with_tests) ==
  <<T("add"), T("screen"), T(name), T("--feature"), T(feature),
    T("--type"), T(screen_type)>>
  \o Flag(with_viewmodel, "--with-viewmodel=true")
  \o Flag(with_tests, "--with-tests=true")

add_service_args(name, feature, service_type, base_url, with_tests, with_mocks) ==
  <<T("add"), T("service"), T(name), T("--feature"), T(feature),
    T("--type"), T(service_type)>>
  \o (IF TruthyStr(base_url) THEN <<T("--base-url"), T(base_url.v)>> ELSE <<>>)
  \o Flag(with_tests, "--with-tests=true")
  \o Flag(with_mocks, "--with-mocks=true")

export_context_args(output_file, dependencies, structure, conventions) ==
  <<T("context"), T("export"), T("--output-file"), T(output_file)>>
  \o Flag(dependencies, "--include-dependencies")
  \o Flag(structure, "--include-structure")
  \o Flag(conventions, "--include-conventions")

export_schema_args(command) ==
  <<T("schema"), T("export")>>
  \o (IF TruthyStr(command) THEN <<T("--command"), T(command.v)>> ELSE <<>>)

doctor_args == <<T("doctor")>>

version_args == <<T("version")>>

\* the args the method named i.op builds from the option values in i
OpArgs(i) ==
  CASE i.op = "create_project" ->
         create_project_args(i.name, i.template, i.organization, i.platforms, i.plan)
    [] i.op = "add_screen" ->
         add_screen_args(i.name, i.feature, i.screen_type, i.with_viewmodel, i.with_tests)
    [] i.op = "add_service" ->
         add_service_args(i.name, i.feature, i.service_type, i.base_url,
                          i.with_tests, i.with_mocks)
    [] i.op = "export_context" ->
         export_context_args(i.output_file, i.include_dependencies,
                             i.include_structure, i.include_conventions)
    [] i.op = "export_schema" -> export_schema_args(i.command)
    [] i.op = "doctor" -> doctor_args
    [] i.op = "version" -> version_args

\* the option values callers pass
PlatformLists == UNION {[1..n -> PlatformNames] : n \in 0..MaxPlatforms}
OptPlatforms == {None} \cup {Some(l) : l \in PlatformLists}
OptBaseUrls == {None} \cup {Some(u) : u \in BaseUrls}
OptSchemaCommands == {None} \cup {Some(c) : c \in SchemaCommands}

CreateInputs ==
  [op : {"create_project"}, name : Names, template : Templates,
   organization : Organizations, platforms : OptPlatforms, plan : BOOLEAN]
ScreenInputs ==
  [op : {"add_screen"}, name : Names, feature : Features, screen_type : ScreenTypes,
   with_viewmodel : BOOLEAN, with_tests : BOOLEAN]
ServiceInputs ==
  [op : {"add_service"}, name : Names, feature : Features, service_type : ServiceTypes,
   base_url : OptBaseUrls, with_tests : BOOLEAN, with_mocks : BOOLEAN]
ContextInputs ==
  [op : {"export_context"}, output_file : OutputFiles, include_dependencies : BOOLEAN,
   include_structure : BOOLEAN, include_conventions : BOOLEAN]
SchemaInputs == [op : {"export_schema"}, command : OptSchemaCommands]
DoctorInputs == [op : {"doctor"}]
VersionInputs == [op : {"version"}]
NoInput == [op |-> "none"]

----------------------------------------------------------------------------
(* The agent used as a library *)

Init ==
  /\ pc = "start"
  /\ fly_command = ""
  /\ probes = 0
  /\ ncalls = 0
  /\ input = NoInput
  /\ argv = <<>>
  /\ env = NoEnv
  /\ outcome = NoValue
  /\ probe_env = NoEnv
  /\ construct = NoValue
  /\ out = <<>>
  /\ err = <<>>
  /\ status = -1

\* FlyCLIAgent(fly_command): __init__ runs the probe
FlyCLIAgent_init ==
  /\ pc = "start"
  /\ \E cmd \in FlyCommands, e \in ProbeEnvs :
       /\ fly_command' = cmd
       /\ probes' = probes + 1
       /\ probe_env' = e
       /\ construct' = verify_installation(e)
       /\ out' = out \o verify_prints(e)
       /\ pc' = IF verify_installation(e).kind = "return" THEN "ready"
                                                         ELSE "construct_failed"
  /\ UNCHANGED <<ncalls, input, argv, env, outcome, err, status>>

\* a method builds its args and enters _run_command, which spawns cmd
Invoke(i) ==
  /\ ncalls < MaxCalls
  /\ input' = i
  /\ argv' = Cmd(fly_command, OpArgs(i))
  /\ ncalls' = ncalls + 1
  /\ env' = NoEnv
  /\ outcome' = NoValue
  /\ pc' = "running"
  /\ UNCHANGED <<fly_command, probes, probe_env, construct, out, err, status>>

create_project ==
  /\ pc = "ready"
  /\ \E i \in CreateInputs : Invoke(i)
add_screen ==
  /\ pc = "ready"
  /\ \E i \in ScreenInputs : Invoke(i)
add_service ==
  /\ pc = "ready"
  /\ \E i \in ServiceInputs : Invoke(i)
export_context ==
  /\ pc = "ready"
  /\ \E i \in ContextInputs : Invoke(i)
export_schema ==
  /\ pc = "ready"
  /\ \E i \in SchemaInputs : Invoke(i)
doctor ==
  /\ pc = "ready"
  /\ \E i \in DoctorInputs : Invoke(i)
version ==
  /\ pc = "ready"
  /\ \E i \in VersionInputs : Invoke(i)

\* subprocess.run ends (or fails to spawn) and _run_command decodes
run_command ==
  /\ pc = "running"
  /\ \E e \in Envs :
       /\ env' = e
       /\ outcome' = run_command_outcome(e)
  /\ pc' = "ready"
  /\ UNCHANGED <<fly_command, probes, ncalls, input, argv, probe_env, construct,
                 out, err, status>>

----------------------------------------------------------------------------
(* The script run as a program: main() *)

\* what argparse hands to main: platforms is nargs="+" (never empty, never
\* None) and the store_true options with default=True are always True
MainInputs ==
  {i \in CreateInputs : i.platforms.some /\ i.platforms.v # <<>>}
  \cup {i \in ScreenInputs : i.with_viewmodel /\ i.with_tests}
  \cup {i \in ServiceInputs : i.with_tests /\ i.with_mocks}
  \cup {i \in ContextInputs : i.include_dependencies /\ i.include_structure
                                /\ i.include_conventions}
  \cup SchemaInputs \cup DoctorInputs \cup VersionInputs

\* the line print(f"Error: {e}", file=sys.stderr) writes
ErrorLine(e) == [prefix |-> e.prefix, detail |-> e.detail]

\* faulty variant of main_except: the message is printed but sys.exit(1) is
\* not reached
main_except_no_exit(e) == [out |-> <<>>, err |-> <<ErrorLine(e)>>, status |-> 0]

\* except Exception as e: print to stderr, sys.exit(1)
main_except(e) == [out |-> <<>>, err |-> <<ErrorLine(e)>>, status |-> 1]

\* print(json.dumps(result, indent=2)), then main returns
main_result(result) == [out |-> <<ResultJson(result)>>, err |-> <<>>, status |-> 0]

\* if not args.command: parser.print_help(); return
main_help == [out |-> <<HelpText>>, err |-> <<>>, status |-> 0]

\* the end of the try statement for the outcome o of a call inside it
main_finish(o) == IF o.kind = "return" THEN main_result(o.value) ELSE main_except(o)

main ==
  /\ pc = "start"
  /\ pc' = "exited"
  /\ \E i \in MainInputs \cup {NoInput}, pe \in ProbeEnvs, e \in Envs :
       /\ input' = i
       /\ IF i.op = "none"
            THEN /\ out' = out \o main_help.out
                 /\ err' = err \o main_help.err
                 /\ status' = main_help.status
                 /\ UNCHANGED <<fly_command, probes, ncalls, argv, env, outcome,
                                probe_env, construct>>
            ELSE /\ fly_command' = "fly"
                 /\ probes' = probes + 1
                 /\ probe_env' = pe
                 /\ construct' = verify_installation(pe)
                 /\ IF verify_installation(pe).kind = "raise"
                      THEN LET f == main_finish(verify_installation(pe)) IN
                           /\ out' = out \o verify_prints(pe) \o f.out
                           /\ err' = err \o f.err
                           /\ status' = f.status
                           /\ UNCHANGED <<ncalls, argv, env, outcome>>
                      ELSE LET f == main_finish(run_command_outcome(e)) IN
                           /\ argv' = Cmd("fly", OpArgs(i))
                           /\ ncalls' = ncalls + 1
                           /\ env' = e
                           /\ outcome' = run_command_outcome(e)
                           /\ out' = out \o verify_prints(pe) \o f.out
                           /\ err' = err \o f.err
                           /\ status' = f.status

----------------------------------------------------------------------------

Next ==
  \/ FlyCLIAgent_init
  \/ create_project
  \/ add_screen
  \/ add_service
  \/ export_context
  \/ export_schema
  \/ doctor
  \/ version
  \/ run_command
  \/ main

Spec == Init /\ [][Next]_vars

----------------------------------------------------------------------------
(* The error taxonomy, as the messages of the RuntimeErrors the code raises *)

\* a _run_command call has ended and left its outcome
Finished == env.spawn # "none"

\* the subprocess of the ended call ran and exited with the given kind of code
ExitedZero == Finished /\ env.spawn = "ok" /\ env.code = 0
ExitedNonZero == Finished /\ env.spawn = "ok" /\ env.code # 0

IsBridgeError(o) == o.kind = "raise" /\ o.exc = "RuntimeError"
IsToolNotInstalled(o) ==
  IsBridgeError(o) /\ o.prefix = NotFoundPrefix /\ o.detail = InstallCommand
IsToolReportedError(o) ==
  IsBridgeError(o) /\ o.prefix \in {CliErrorPrefix, CommandFailedPrefix}
IsInvalidSuccessPayload(o) == IsBridgeError(o) /\ o.prefix = InvalidJsonPrefix

\* v is a JSON object whose "error" member is an object with a "message" member
HasErrorMessage(v) ==
  /\ v.t = "object"
  /\ \E p \in v.o : /\ p[1] = "error"
                    /\ p[2].t = "object"
                    /\ \E q \in p[2].o : q[1] = "message"

\* that member's value
ErrorMessage(v) ==
  LET p == CHOOSE p \in v.o : p[1] = "error" IN
  (CHOOSE q \in p[2].o : q[1] = "message")[2]

\* token s occurs in the argument vector a
HasToken(a, s) == \E k \in 1..Len(a) : a[k] = T(s)

\* token s occurs in a and is followed by the token v
HasOption(a, s, v) == \E k \in 1..(Len(a) - 1) : a[k] = T(s) /\ a[k + 1] = v

----------------------------------------------------------------------------
(* Claims *)

\* C1: every _run_command call ends in exactly one of two outcomes: it
\* returns a decoded result, or it fails with the bridge's classified error
\* (a RuntimeError); no other exception reaches the caller.
C1_ExactlyOneOutcome ==
  Finished => (outcome.kind = "return" \/ IsBridgeError(outcome))

\* C2: when the executable cannot be spawned during _run_command, the call
\* fails with a classified error (ToolNotInvocable) that is distinguishable
\* from the ToolReportedError of a process that ran and exited non-zero.
C2_SpawnFailureClassified ==
  (Finished /\ env.spawn \in SpawnErrors)
    => (IsBridgeError(outcome) /\ ~IsToolReportedError(outcome))

\* C3: when the subprocess exits 0 and stdout is valid JSON, the call returns
\* the value parsed from stdout, that value is a JSON object (a mapping), and
\* the call never fails.
C3_SuccessReturnsObject ==
  (ExitedZero /\ json_loads(env.stdout).ok)
    => /\ outcome.kind = "return"
       /\ outcome.value = json_loads(env.stdout).value
       /\ outcome.value.t = "object"

\* C4: when the subprocess exits 0 and stdout is empty or not valid JSON, the
\* call fails with the 'Invalid JSON response' RuntimeError; it returns no
\* value and does not report a tool-reported error.
C4_InvalidSuccessPayload ==
  (ExitedZero /\ ~json_loads(env.stdout).ok)
    => /\ IsInvalidSuccessPayload(outcome)
       /\ outcome.kind # "return"
       /\ ~IsToolReportedError(outcome)

C4_Witness ==
  /\ ExitedZero
  /\ env.stdout = ""
  /\ IsInvalidSuccessPayload(outcome)

\* C5: when the subprocess exits non-zero and stdout is a JSON object whose
\* error object has a message member m, the call fails with the 'Fly CLI
\* error' RuntimeError whose message is m, whatever stderr holds.
C5_ToolReportedMessage ==
  (ExitedNonZero /\ json_loads(env.stdout).ok
     /\ HasErrorMessage(json_loads(env.stdout).value))
    => /\ IsToolReportedError(outcome)
       /\ outcome.prefix = CliErrorPrefix
       /\ outcome.detail = py_str(ErrorMessage(json_loads(env.stdout).value))

C5_Witness ==
  /\ ExitedNonZero
  /\ env.stdout = "{\"error\": {\"message\": \"boom\"}}"
  /\ env.stderr = "disk full"
  /\ IsToolReportedError(outcome)
  /\ outcome.detail = "boom"

\* C6: when the subprocess exits non-zero and stdout is not valid JSON (empty
\* included), the call fails with the 'command failed' RuntimeError whose
\* message is the captured stderr; that fallback is used in no other case.
C6_StderrFallback ==
  /\ (ExitedNonZero /\ ~json_loads(env.stdout).ok)
       => /\ IsToolReportedError(outcome)
          /\ outcome.prefix = CommandFailedPrefix
          /\ outcome.detail = env.stderr
  /\ (Finished /\ outcome.prefix = CommandFailedPrefix)
       => (ExitedNonZero /\ ~json_loads(env.stdout).ok)

C6_Witness ==
  /\ ExitedNonZero
  /\ env.stdout = "Created project my_app"
  /\ env.stderr = "disk full"
  /\ outcome.prefix = CommandFailedPrefix
  /\ outcome.detail = "disk full"

\* the argument vector of a call starts with the configured tool command and
\* ends with "--output", "json"
ArgvShape ==
  ncalls > 0
    => /\ Len(argv) >= 3
       /\ argv[1] = T(fly_command)
       /\ argv[Len(argv) - 1] = T("--output")
       /\ argv[Len(argv)] = T("json")

\* a call with the operation and option values of the call before it passes
\* the argument vector of the call before it
SameInputSameArgv ==
  (ncalls > 0 /\ ncalls' > ncalls /\ input' = input) => argv' = argv

MainEnded == pc = "exited" /\ input.op # "none"

\* the probe or the command invocation of the run failed, with this exception
MainFailure == IF construct.kind = "raise" THEN construct ELSE outcome
MainFailed == MainEnded /\ MainFailure.kind = "raise"

\* C9: a run of main in which the probe or the command fails ends with the
\* failure message on standard error and a non-zero exit status, with nothing
\* written to standard output; the result JSON and exit status 0 occur only
\* when the invocation succeeded.
C9_NoOutputOnFailure ==
  /\ MainFailed => /\ err = <<ErrorLine(MainFailure)>>
                   /\ status # 0
                   /\ out = <<>>
  /\ (MainEnded /\ (status = 0 \/ \E k \in 1..Len(out) : out[k].kind = "json"))
       => (construct.kind = "return" /\ outcome.kind = "return")

\* C9 as amended: in a failing run the failure message goes to standard
\* error, the exit status is 1 and no result JSON is written; standard output
\* holds only the probe's confirmation line, and holds it exactly when the
\* probe succeeded. The result JSON and exit status 0 occur only when the
\* invocation succeeded.
C9_NoResultOnFailure ==
  /\ MainFailed => /\ err = <<ErrorLine(MainFailure)>>
                   /\ status = 1
                   /\ out = IF construct.kind = "return"
                              THEN <<Banner(py_strip(probe_env.stdout))>>
                              ELSE <<>>
  /\ (MainEnded /\ (status = 0 \/ \E k \in 1..Len(out) : out[k].kind = "json"))
       => /\ construct.kind = "return"
          /\ outcome.kind = "return"
          /\ status = 0
          /\ err = <<>>
          /\ out = <<Banner(py_strip(probe_env.stdout)), ResultJson(outcome.value)>>

C9_Witness ==
  /\ MainFailed
  /\ construct.kind = "return"
  /\ outcome.kind = "raise"
  /\ out = <<Banner("1.0.0")>>
  /\ status = 1

\* C10: the probe runs exactly once per agent, before any command; when the
\* tool cannot be located or executed, or exits non-zero, construction fails
\* with the 'not found' RuntimeError carrying the install command and with
\* nothing else; when it exits 0, construction returns.
C10_ProbeClassified ==
  /\ (pc # "start" /\ ~(pc = "exited" /\ input.op = "none")) => probes = 1
  /\ ncalls > 0 => (probes = 1 /\ construct.kind = "return")
  /\ probes > 0 =>
       IF probe_env.spawn \in SpawnErrors \/ probe_env.code # 0
         THEN IsToolNotInstalled(construct)
         ELSE construct.kind = "return"

====
